---- MODULE Spec2Model ----
(***************************************************************************)
(* Model of cumulusci/tasks/salesforce/Deploy.py:                          *)
(*   - DeployAndWaitForSharingRecalculation: the baseline / deploy /       *)
(*     started-check / poll protocol over the SetupAuditTrail log;         *)
(*   - Deploy: option initialisation and the package build pipeline;       *)
(*   - Deploy: the file selection, the namespace passes and the static     *)
(*     resource bundling, over the contents of the package.                *)
(***************************************************************************)
EXTENDS Integers, Sequences, FiniteSets, TLC

VARIABLES
    now,    \* wall clock, datetime.now(), in whole seconds
    log,    \* SetupAuditTrail: append-only sequence of records, oldest first
    task,   \* the DeployAndWaitForSharingRecalculation instance (its fields and position)
    log2,   \* a second SetupAuditTrail, equal to log in every entry newer than the baseline
    task2,  \* the same task run against log2, in lockstep with task
    deploy, \* the Deploy instance building and shipping a package
    walk,   \* _get_files_to_package: the source tree and the os.walk over it
    nspass, \* _process_namespace: one archive entry under the namespace passes
    bundler \* _process_meta_xml, _process_static_resources: the archives and the resource root

buildVars == <<walk, nspass, bundler>>
vars == <<now, log, task, log2, task2, deploy, walk, nspass, bundler>>

----------------------------------------------------------------------------
(* Bounds of the model *)

MaxTime == 3        \* the clock stops advancing here
MaxLog == 3         \* most SetupAuditTrail records a log holds
MaxOld == 1         \* most records a log holds before the baseline is captured
MaxTimeout == 2     \* largest explicit timeout option
MaxPairLog == 2     \* most records each log holds when two runs are compared
MaxPairTime == 2    \* the clock stops advancing here when two runs are compared

----------------------------------------------------------------------------
(* Python values *)

None == -1          \* Python None where the other values are non-negative integers
DefaultTimeout == 600
PollInterval == 1   \* seconds slept between two poll ticks

Sections == {"Sharing Defaults", "Manage Users"}
AuditActions == {"owdUpdateStarted", "owdUpdateFinished"}

Record(t, s, a) == [CreatedDate |-> t, Section |-> s, Action |-> a]

NoException == <<>>
AttributeError == <<"AttributeError", "log_title">>
SharingRecalculationTimeout(timeout) ==
    <<"SharingRecalculationTimeout", "Sharing recalculation did not finish after {timeout} seconds", timeout>>

----------------------------------------------------------------------------
(* The log-query collaborator: self.sf.query(soql).get("records") *)

RECURSIVE OrderByCreatedDateDesc(_)
OrderByCreatedDateDesc(l) ==
    IF l = <<>> THEN <<>>
    ELSE LET newest == CHOOSE i \in DOMAIN l :
                 \A j \in DOMAIN l :
                     \/ l[j].CreatedDate < l[i].CreatedDate
                     \/ (l[j].CreatedDate = l[i].CreatedDate /\ j <= i)
             rest == [k \in 1..(Len(l) - 1) |-> IF k < newest THEN l[k] ELSE l[k + 1]]
         IN <<l[newest]>> \o OrderByCreatedDateDesc(rest)

Limit(l, n) == IF Len(l) <= n THEN l ELSE SubSeq(l, 1, n)

\* SELECT CreatedDate FROM SetupAuditTrail ORDER BY CreatedDate DESC LIMIT 1
_get_last_setup_audit_trail_created_date(l) ==
    LET records == Limit(OrderByCreatedDateDesc(l), 1)
    IN IF records /= <<>> THEN records[1].CreatedDate ELSE None

CreatedAfter(l, date) == SelectSeq(l, LAMBDA r : r.CreatedDate > date)

\* Mutant: WHERE CreatedDate >= the baseline date.
_get_sharing_recalculation_query_from_baseline(l, last_date) ==
    IF last_date /= None
    THEN OrderByCreatedDateDesc(SelectSeq(l, LAMBDA r : r.CreatedDate >= last_date))
    ELSE OrderByCreatedDateDesc(l)

\* The records returned for the SOQL built by _get_sharing_recalculation_query.
_get_sharing_recalculation_query(l, last_date) ==
    IF last_date /= None
    THEN OrderByCreatedDateDesc(CreatedAfter(l, last_date))
    ELSE OrderByCreatedDateDesc(l)

_is_sharing_recalcuation_started(l, last_date) ==
    LET records == _get_sharing_recalculation_query(l, last_date)
    IN \E i \in DOMAIN records :
           /\ records[i].Section = "Sharing Defaults"
           /\ records[i].Action = "owdUpdateStarted"

\* Mutant: the Section of the record is not compared.
_is_sharing_recalcuation_finished_any_section(l, last_date) ==
    LET records == _get_sharing_recalculation_query(l, last_date)
    IN \E i \in DOMAIN records : records[i].Action = "owdUpdateFinished"

\* Mutant: the Action is compared with a misspelt name, which no record carries.
_is_sharing_recalcuation_finished_misspelt(l, last_date) ==
    LET records == _get_sharing_recalculation_query(l, last_date)
    IN \E i \in DOMAIN records :
           /\ records[i].Section = "Sharing Defaults"
           /\ records[i].Action = "owdUpdateFinised"

_is_sharing_recalcuation_finished(l, last_date) ==
    LET records == _get_sharing_recalculation_query(l, last_date)
    IN \E i \in DOMAIN records :
           /\ records[i].Section = "Sharing Defaults"
           /\ records[i].Action = "owdUpdateFinished"

----------------------------------------------------------------------------
(* DeployAndWaitForSharingRecalculation *)

\* Defaults timeout as 600, then int().
_init_options_timeout(raw) == IF raw = None \/ raw = 0 THEN DefaultTimeout ELSE raw

_log_title(logger, title) == logger \o <<"", title, "-----">>

NewTask(raw_timeout) ==
    [ pc |-> "run_task",
      timeout |-> _init_options_timeout(raw_timeout),
      time_start |-> None,
      last_setup_audit_trail_created_date |-> None,
      poll_complete |-> FALSE,
      poll_count |-> 0,
      seen |-> 0,    \* history: how many records the log held at the last finish query
      logger |-> <<>>,
      raised |-> NoException ]

\* self.time_start = datetime.now()
_run_task_time_start(t, nw) ==
    [t EXCEPT !.time_start = nw, !.pc = "baseline"]

\* self.last_setup_audit_trail_created_date = ...; self._log_title("Deploying metadata")
_run_task_baseline(t, l) ==
    [t EXCEPT !.last_setup_audit_trail_created_date = _get_last_setup_audit_trail_created_date(l),
              !.logger = _log_title(@, "Deploying metadata"),
              !.pc = "deploy"]

\* super(Deploy, self)._run_task() returns
_run_task_deploy(t) == [t EXCEPT !.pc = "started"]

\* Mutant: the else branch is missing, the task polls whatever the query returned.
_run_task_started_always_polls(t, l) ==
    [t EXCEPT !.logger = _log_title(@, "Checking for {timeout} seconds if sharing recalculation is finished"),
              !.pc = "poll"]

\* if self._is_sharing_recalcuation_started(): ... else: self.log_title(...) ...
\* The class defines _log_title only, so the else branch raises AttributeError
\* at self.log_title before either notice is logged.
_run_task_started(t, l) ==
    IF _is_sharing_recalcuation_started(l, t.last_setup_audit_trail_created_date)
    THEN [t EXCEPT !.logger = _log_title(@, "Checking for {timeout} seconds if sharing recalculation is finished"),
                   !.pc = "poll"]
    ELSE [t EXCEPT !.raised = AttributeError, !.pc = "done"]

\* Mutant: the finish check runs before the timeout check.
_poll_action_finished_first(t, l, nw) ==
    LET elapsed == nw - t.time_start
    IN IF _is_sharing_recalcuation_finished(l, t.last_setup_audit_trail_created_date)
       THEN [t EXCEPT !.seen = Len(l), !.poll_complete = TRUE]
       ELSE IF elapsed > t.timeout
            THEN [t EXCEPT !.raised = SharingRecalculationTimeout(t.timeout)]
            ELSE [t EXCEPT !.seen = Len(l)]

\* Mutant: the timeout is raised as soon as the elapsed time reaches it.
_poll_action_at_timeout(t, l, nw) ==
    LET elapsed == nw - t.time_start
    IN IF elapsed >= t.timeout
       THEN [t EXCEPT !.raised = SharingRecalculationTimeout(t.timeout)]
       ELSE [t EXCEPT !.seen = Len(l),
                      !.poll_complete =
                          IF _is_sharing_recalcuation_finished(l, t.last_setup_audit_trail_created_date)
                          THEN TRUE ELSE @]

\* One call of _poll_action: raises on timeout, else sets poll_complete when finished.
_poll_action(t, l, nw) ==
    LET elapsed == nw - t.time_start
    IN IF elapsed > t.timeout
       THEN [t EXCEPT !.raised = SharingRecalculationTimeout(t.timeout)]
       ELSE [t EXCEPT !.seen = Len(l),
                      !.poll_complete =
                          IF _is_sharing_recalcuation_finished(l, t.last_setup_audit_trail_created_date)
                          THEN TRUE ELSE @]

\* One iteration of BaseTask._poll, and the return to _run_task when the loop breaks.
_poll(t, l, nw) ==
    LET t1 == _poll_action([t EXCEPT !.poll_count = @ + 1], l, nw)
    IN IF t1.raised /= NoException THEN [t1 EXCEPT !.pc = "done"]
       ELSE IF t1.poll_complete
            THEN [t1 EXCEPT !.logger = Append(@, "Sharing recalculation finished!"),
                            !.pc = "done"]
            ELSE [t1 EXCEPT !.pc = "sleep"]

\* time.sleep(self.poll_interval_s) has returned
_poll_sleep(t) == [t EXCEPT !.pc = "poll"]

----------------------------------------------------------------------------
(* Deploy: options *)

NoOption == "None"      \* Python None where the other values are strings

TestLevels == {"NoTestRun", "RunLocalTests", "RunAllTestsInOrg", "RunSpecifiedTests"}

\* Python truthiness of a string-valued option
Truthy(v) == v /= NoOption /\ v /= ""

\* process_bool_arg: the option given as "True" / "False", or the default when absent
process_bool_arg(v, default) == IF v = NoOption THEN default ELSE v = "True"

RECURSIVE Split(_)
\* str.split(","): the string is a sequence of characters, the result a list of parts
Split(str) ==
    IF \A i \in DOMAIN str : str[i] /= ","
    THEN <<str>>
    ELSE LET c == CHOOSE i \in DOMAIN str :
                      str[i] = "," /\ \A j \in 1..(i - 1) : str[j] /= ","
         IN <<SubSeq(str, 1, c - 1)>> \o Split(SubSeq(str, c + 1, Len(str)))

\* process_list_arg: a list is returned as it is, a string is split at the commas.
\* arg is [kind |-> "list" | "str", value |-> the list, or the characters of the string]
process_list_arg(arg) == IF arg.kind = "list" THEN arg.value ELSE Split(arg.value)

TaskOptionsError(msg) == <<"TaskOptionsError", msg>>
IOError == <<"FileNotFoundError", "resource-meta.xml">>

\* Mutant: the first check is not guarded by "self.test_level and".
_init_options_unguarded(d) ==
    LET test_level == d.options.test_level
        specified_tests == process_list_arg(d.options.specified_tests)
    IN IF test_level \notin TestLevels
       THEN [d EXCEPT !.test_level = test_level,
                      !.raised = TaskOptionsError("Specified test run level {test_level} is not valid."),
                      !.pc = "done"]
       ELSE IF (specified_tests /= <<>>) /= (test_level = "RunSpecifiedTests")
            THEN [d EXCEPT !.test_level = test_level,
                           !.specified_tests = specified_tests,
                           !.raised = TaskOptionsError("The specified_tests option and test_level RunSpecifiedTests must be used together."),
                           !.pc = "done"]
            ELSE [d EXCEPT !.test_level = test_level,
                           !.specified_tests = specified_tests,
                           !.pc = "get_package_zip"]

\* Deploy._init_options
_init_options(d) ==
    LET test_level == d.options.test_level
        specified_tests == process_list_arg(d.options.specified_tests)
    IN IF Truthy(test_level) /\ test_level \notin TestLevels
       THEN [d EXCEPT !.test_level = test_level,
                      !.raised = TaskOptionsError("Specified test run level {test_level} is not valid."),
                      !.pc = "done"]
       ELSE IF (specified_tests /= <<>>) /= (test_level = "RunSpecifiedTests")
            THEN [d EXCEPT !.test_level = test_level,
                           !.specified_tests = specified_tests,
                           !.raised = TaskOptionsError("The specified_tests option and test_level RunSpecifiedTests must be used together."),
                           !.pc = "done"]
            ELSE [d EXCEPT !.test_level = test_level,
                           !.specified_tests = specified_tests,
                           !.pc = "get_package_zip"]

----------------------------------------------------------------------------
(* Deploy: the package build. deploy.stages lists the passes that have run  *)
(* over the archive, in the order they ran.                                *)

NewDeploy(options, resource_root) ==
    [ pc |-> "init_options",
      options |-> options,
      resource_root |-> resource_root,  \* what static_resource_path holds on disk
      test_level |-> NoOption,
      specified_tests |-> <<>>,
      stages |-> <<>>,
      logger |-> <<>>,
      raised |-> NoException ]

RunStage(d, stage) == [d EXCEPT !.stages = Append(@, stage)]

\* Mutant: the zip is returned as built, _process_zip_file is not called.
_get_package_zip_unprocessed(d) == [RunStage(d, "archive") EXCEPT !.pc = "api"]

\* _get_package_zip: the selected files are written to the zip, the zip is closed
_get_package_zip(d) == [RunStage(d, "archive") EXCEPT !.pc = "tokenize"]

\* _process_namespace, first if
_process_namespace_tokenize(d) ==
    IF Truthy(d.options.namespace_tokenize)
    THEN [RunStage(d, "tokenize") EXCEPT
              !.logger = Append(@, "Tokenizing namespace prefix {}__"),
              !.pc = "inject"]
    ELSE [d EXCEPT !.pc = "inject"]

\* _process_namespace, second if
_process_namespace_inject(d) ==
    IF Truthy(d.options.namespace_inject)
    THEN LET managed == ~process_bool_arg(d.options.unmanaged, TRUE)
         IN [RunStage(d, "inject") EXCEPT
                !.logger = Append(@, IF managed
                    THEN "Replacing namespace tokens from metadata with namespace prefix {}__"
                    ELSE "Stripping namespace tokens from metadata for unmanaged deployment"),
                !.pc = "strip"]
    ELSE [d EXCEPT !.pc = "strip"]

\* Mutant: the strip pass is an elif of the inject pass.
_process_namespace_strip_elif(d) ==
    IF Truthy(d.options.namespace_strip) /\ ~Truthy(d.options.namespace_inject)
    THEN [RunStage(d, "strip") EXCEPT !.pc = "meta_xml"]
    ELSE [d EXCEPT !.pc = "meta_xml"]

\* _process_namespace, third if
_process_namespace_strip(d) ==
    IF Truthy(d.options.namespace_strip)
    THEN [RunStage(d, "strip") EXCEPT !.pc = "meta_xml"]
    ELSE [d EXCEPT !.pc = "meta_xml"]

_process_meta_xml(d) ==
    IF ~process_bool_arg(d.options.clean_meta_xml, TRUE)
    THEN [d EXCEPT !.pc = "static_resources"]
    ELSE [RunStage(d, "meta_xml") EXCEPT
              !.logger = Append(@, "Cleaning meta.xml files of packageVersion elements for deploy"),
              !.pc = "static_resources"]

\* _process_static_resources up to the end of the bundle loop (lines 211-253):
\* open(meta_path) raises when a bundle directory has no descriptor beside it
_process_static_resources(d) ==
    IF ~Truthy(d.options.static_resource_path) \/ d.resource_root = "absent"
    THEN [d EXCEPT !.pc = "api"]
    ELSE IF d.resource_root = "descriptor_missing"
         THEN [d EXCEPT !.raised = IOError, !.pc = "done"]
         ELSE [RunStage(d, "static_resources") EXCEPT
                   !.logger = Append(@, "Zipping {} to add to staticresources"),
                   !.pc = "package_xml"]

\* _process_static_resources, "Update package.xml" (lines 255-266)
_process_static_resources_package_xml(d) ==
    [RunStage(d, "package_xml") EXCEPT !.pc = "api"]

\* _get_api returns self.api_class(self, package_zip, ...), which _run_task calls
_get_api(d) ==
    [RunStage(d, "api") EXCEPT
         !.logger = Append(@, "Payload size: {} bytes"),
         !.pc = "done"]

IdleDeploy ==
    NewDeploy([test_level |-> NoOption,
               specified_tests |-> [kind |-> "list", value |-> <<>>],
               namespace_tokenize |-> NoOption,
               namespace_inject |-> NoOption,
               namespace_strip |-> NoOption,
               unmanaged |-> NoOption,
               clean_meta_xml |-> NoOption,
               static_resource_path |-> NoOption],
              "absent")

----------------------------------------------------------------------------
(* Specification SpecPoll: one run of DeployAndWaitForSharingRecalculation *)
(* against a SetupAuditTrail that other sessions append to.               *)

RawTimeouts == {None} \cup (1..MaxTimeout)

RECURSIVE LogsAt(_, _)
\* The logs of at most n records, all created at time t.
LogsAt(n, t) ==
    IF n = 0 THEN {<<>>}
    ELSE LET shorter == LogsAt(n - 1, t)
         IN shorter \cup
            {Append(l, Record(t, s, a)) : l \in shorter, s \in Sections, a \in AuditActions}

otherVars == <<log2, task2, deploy, buildVars>>

\* No file selection, namespace pass or bundling is under way.
NoWalk == [pc |-> "idle"]
NoPass == [pc |-> "idle"]
NoBundler == [pc |-> "idle"]
IdleBuild == walk = NoWalk /\ nspass = NoPass /\ bundler = NoBundler

InitPoll ==
    /\ now = 0
    /\ log \in LogsAt(MaxOld, 0)
    /\ \E raw \in RawTimeouts : task = NewTask(raw)
    /\ log2 = <<>>
    /\ task2 = NewTask(None)
    /\ deploy = IdleDeploy
    /\ IdleBuild

\* datetime.now() advances
Tick ==
    /\ now < MaxTime
    /\ task.pc /= "done"
    /\ now' = now + 1
    /\ UNCHANGED <<log, task, otherVars>>

\* The org inserts a SetupAuditTrail record
Insert ==
    /\ Len(log) < MaxLog
    /\ task.pc /= "done"
    /\ \E s \in Sections, a \in AuditActions : log' = Append(log, Record(now, s, a))
    /\ UNCHANGED <<now, task, otherVars>>

RunTaskTimeStart ==
    /\ task.pc = "run_task"
    /\ task' = _run_task_time_start(task, now)
    /\ UNCHANGED <<now, log, otherVars>>

RunTaskBaseline ==
    /\ task.pc = "baseline"
    /\ task' = _run_task_baseline(task, log)
    /\ UNCHANGED <<now, log, otherVars>>

RunTaskDeploy ==
    /\ task.pc = "deploy"
    /\ task' = _run_task_deploy(task)
    /\ UNCHANGED <<now, log, otherVars>>

RunTaskStarted ==
    /\ task.pc = "started"
    /\ task' = _run_task_started(task, log)
    /\ UNCHANGED <<now, log, otherVars>>

Poll ==
    /\ task.pc = "poll"
    /\ task' = _poll(task, log, now)
    /\ UNCHANGED <<now, log, otherVars>>

PollSleep ==
    /\ task.pc = "sleep"
    /\ now + PollInterval <= MaxTime
    /\ now' = now + PollInterval
    /\ task' = _poll_sleep(task)
    /\ UNCHANGED <<log, otherVars>>

NextPoll ==
    \/ Tick
    \/ Insert
    \/ RunTaskTimeStart
    \/ RunTaskBaseline
    \/ RunTaskDeploy
    \/ RunTaskStarted
    \/ Poll
    \/ PollSleep

SpecPoll == InitPoll /\ [][NextPoll]_vars

----------------------------------------------------------------------------
(* Specification SpecBaseline: the same run made twice in lockstep, task   *)
(* against log and task2 against log2. The two logs hold the same records  *)
(* newer than the baseline date and may differ in every record created at  *)
(* or before it.                                                           *)

InitBaseline ==
    /\ now = 0
    /\ log \in LogsAt(MaxOld, 0)
    /\ log2 \in LogsAt(MaxOld, 0)
    /\ (log = <<>>) <=> (log2 = <<>>)
    /\ \E raw \in RawTimeouts : task = NewTask(raw) /\ task2 = NewTask(raw)
    /\ deploy = IdleDeploy
    /\ IdleBuild

BaselineCaptured == task.pc \notin {"run_task", "baseline"}

\* A record inserted now is created after the baseline date of the run.
InsertIsNewer ==
    /\ BaselineCaptured
    /\ (task.last_setup_audit_trail_created_date = None
          \/ now > task.last_setup_audit_trail_created_date)

\* Until the baseline is captured a log holds at most MaxOld records.
RoomForOlder(l) == BaselineCaptured \/ Len(l) < MaxOld

\* The org inserts the same record into both logs.
InsertNewer ==
    /\ InsertIsNewer
    /\ Len(log) < MaxPairLog /\ Len(log2) < MaxPairLog
    /\ task.pc /= "done"
    /\ \E s \in Sections, a \in AuditActions :
           /\ log' = Append(log, Record(now, s, a))
           /\ log2' = Append(log2, Record(now, s, a))
    /\ UNCHANGED <<now, task, task2, deploy, buildVars>>

\* Before the baseline is captured the org inserts a record into each log, any two
\* records of the same date, so that both runs capture the same baseline.
InsertOlder ==
    /\ ~BaselineCaptured
    /\ Len(log) < MaxPairLog /\ Len(log2) < MaxPairLog
    /\ RoomForOlder(log) /\ RoomForOlder(log2)
    /\ \E s \in Sections, a \in AuditActions : log' = Append(log, Record(now, s, a))
    /\ \E s \in Sections, a \in AuditActions : log2' = Append(log2, Record(now, s, a))
    /\ UNCHANGED <<now, task, task2, deploy, buildVars>>

\* The org inserts a record dated at or before the baseline into one log only;
\* before the baseline is captured the other log must already end at this date.
InsertOlderOne ==
    /\ ~InsertIsNewer
    /\ \/ /\ BaselineCaptured \/ _get_last_setup_audit_trail_created_date(log2) = now
          /\ Len(log) < MaxPairLog /\ RoomForOlder(log)
          /\ \E s \in Sections, a \in AuditActions : log' = Append(log, Record(now, s, a))
          /\ log2' = log2
       \/ /\ BaselineCaptured \/ _get_last_setup_audit_trail_created_date(log) = now
          /\ Len(log2) < MaxPairLog /\ RoomForOlder(log2)
          /\ \E s \in Sections, a \in AuditActions : log2' = Append(log2, Record(now, s, a))
          /\ log' = log
    /\ UNCHANGED <<now, task, task2, deploy, buildVars>>

BothTick ==
    /\ now < MaxPairTime
    /\ task.pc /= "done"
    /\ now' = now + 1
    /\ UNCHANGED <<log, log2, task, task2, deploy, buildVars>>

BothRunTaskTimeStart ==
    /\ task.pc = "run_task"
    /\ task' = _run_task_time_start(task, now)
    /\ task2' = IF task2.pc = task.pc THEN _run_task_time_start(task2, now) ELSE task2
    /\ UNCHANGED <<now, log, log2, deploy, buildVars>>

BothRunTaskBaseline ==
    /\ task.pc = "baseline"
    /\ task' = _run_task_baseline(task, log)
    /\ task2' = IF task2.pc = task.pc THEN _run_task_baseline(task2, log2) ELSE task2
    /\ UNCHANGED <<now, log, log2, deploy, buildVars>>

BothRunTaskDeploy ==
    /\ task.pc = "deploy"
    /\ task' = _run_task_deploy(task)
    /\ task2' = IF task2.pc = task.pc THEN _run_task_deploy(task2) ELSE task2
    /\ UNCHANGED <<now, log, log2, deploy, buildVars>>

BothRunTaskStarted ==
    /\ task.pc = "started"
    /\ task' = _run_task_started(task, log)
    /\ task2' = IF task2.pc = task.pc THEN _run_task_started(task2, log2) ELSE task2
    /\ UNCHANGED <<now, log, log2, deploy, buildVars>>

BothPoll ==
    /\ task.pc = "poll"
    /\ task' = _poll(task, log, now)
    /\ task2' = IF task2.pc = task.pc THEN _poll(task2, log2, now) ELSE task2
    /\ UNCHANGED <<now, log, log2, deploy, buildVars>>

BothPollSleep ==
    /\ task.pc = "sleep"
    /\ now + PollInterval <= MaxPairTime
    /\ now' = now + PollInterval
    /\ task' = _poll_sleep(task)
    /\ task2' = IF task2.pc = task.pc THEN _poll_sleep(task2) ELSE task2
    /\ UNCHANGED <<log, log2, deploy, buildVars>>

NextBaseline ==
    \/ BothTick
    \/ InsertNewer
    \/ InsertOlder
    \/ InsertOlderOne
    \/ BothRunTaskTimeStart
    \/ BothRunTaskBaseline
    \/ BothRunTaskDeploy
    \/ BothRunTaskStarted
    \/ BothPoll
    \/ BothPollSleep

SpecBaseline == InitBaseline /\ [][NextBaseline]_vars

----------------------------------------------------------------------------
(* Specification SpecDeploy: one Deploy task, from its construction to the  *)
(* call of the transport, for every combination of the options.            *)

TestLevelOptions == {NoOption, ""} \cup TestLevels \cup {"RunEverything"}

SpecifiedTestsOptions ==
    {[kind |-> "list", value |-> v] : v \in {<<>>, <<"ATest">>, <<"ATest", "BTest">>}}
    \cup {[kind |-> "str", value |-> v] : v \in {<<>>, <<"A">>, <<"A", ",", "B">>}}

NamespaceOptions == {NoOption, "ns"}
BoolOptions == {NoOption, "True", "False"}
PathOptions == {NoOption, "static"}
ResourceRoots == {"absent", "bundles", "descriptor_missing"}

DeployOptions ==
    [ test_level : TestLevelOptions,
      specified_tests : SpecifiedTestsOptions,
      namespace_tokenize : NamespaceOptions,
      namespace_inject : NamespaceOptions,
      namespace_strip : NamespaceOptions,
      unmanaged : BoolOptions,
      clean_meta_xml : BoolOptions,
      static_resource_path : PathOptions ]

pollVars == <<now, log, task, log2, task2, buildVars>>

InitDeploy ==
    /\ now = 0
    /\ log = <<>>
    /\ task = NewTask(None)
    /\ log2 = <<>>
    /\ task2 = NewTask(None)
    /\ \E o \in DeployOptions, r \in ResourceRoots : deploy = NewDeploy(o, r)
    /\ IdleBuild

InitOptions ==
    /\ deploy.pc = "init_options"
    /\ deploy' = _init_options(deploy)
    /\ UNCHANGED pollVars

GetPackageZip ==
    /\ deploy.pc = "get_package_zip"
    /\ deploy' = _get_package_zip(deploy)
    /\ UNCHANGED pollVars

ProcessNamespaceTokenize ==
    /\ deploy.pc = "tokenize"
    /\ deploy' = _process_namespace_tokenize(deploy)
    /\ UNCHANGED pollVars

ProcessNamespaceInject ==
    /\ deploy.pc = "inject"
    /\ deploy' = _process_namespace_inject(deploy)
    /\ UNCHANGED pollVars

ProcessNamespaceStrip ==
    /\ deploy.pc = "strip"
    /\ deploy' = _process_namespace_strip(deploy)
    /\ UNCHANGED pollVars

ProcessMetaXml ==
    /\ deploy.pc = "meta_xml"
    /\ deploy' = _process_meta_xml(deploy)
    /\ UNCHANGED pollVars

ProcessStaticResources ==
    /\ deploy.pc = "static_resources"
    /\ deploy' = _process_static_resources(deploy)
    /\ UNCHANGED pollVars

ProcessStaticResourcesPackageXml ==
    /\ deploy.pc = "package_xml"
    /\ deploy' = _process_static_resources_package_xml(deploy)
    /\ UNCHANGED pollVars

GetApi ==
    /\ deploy.pc = "api"
    /\ deploy' = _get_api(deploy)
    /\ UNCHANGED pollVars

NextDeploy ==
    \/ InitOptions
    \/ GetPackageZip
    \/ ProcessNamespaceTokenize
    \/ ProcessNamespaceInject
    \/ ProcessNamespaceStrip
    \/ ProcessMetaXml
    \/ ProcessStaticResources
    \/ ProcessStaticResourcesPackageXml
    \/ GetApi

SpecDeploy == InitDeploy /\ [][NextDeploy]_vars

----------------------------------------------------------------------------
(* Deploy: the contents of the package. A zip file is the sequence of its  *)
(* entries in the order they were written; the content of an entry is the  *)
(* sequence of the XML elements it holds, or the one element that stands    *)
(* for the bytes of a nested zip.                                          *)

Leaf(tag, text) == [tag |-> tag, text |-> text]
Element(tag, children) == [tag |-> tag, text |-> "", children |-> children]

Entry(name, content) == [name |-> name, content |-> content]

\* ZipFile.namelist
namelist(zip) == [i \in DOMAIN zip |-> zip[i].name]

\* ZipFile.writestr, ZipFile.write: the entry is appended, also when an entry of
\* that name is in the zip already
writestr(zip, name, content) == Append(zip, Entry(name, content))

\* str.endswith
endswith(str, suffix) ==
    /\ Len(str) >= Len(suffix)
    /\ SubSeq(str, Len(str) - Len(suffix) + 1, Len(str)) = suffix

RECURSIVE Filter(_, _)
\* the elements of a sequence whose tag is not the given one
Filter(elements, tag) ==
    IF elements = <<>> THEN <<>>
    ELSE IF Head(elements).tag = tag
         THEN Filter(Tail(elements), tag)
         ELSE <<Head(elements)>> \o Filter(Tail(elements), tag)

\* zip_clean_metaxml: every entry whose name ends in meta.xml loses its
\* packageVersions elements, every other entry is copied
zip_clean_metaxml(zip) ==
    [i \in DOMAIN zip |->
        IF endswith(zip[i].name, "meta.xml")
        THEN Entry(zip[i].name, Filter(zip[i].content, "packageVersions"))
        ELSE zip[i]]

\* metadata_tree: Package.findall("types", name=...), the positions of the
\* matching sections in document order
RECURSIVE findall(_, _, _)
findall(Package, tag, name) ==
    IF Package = <<>> THEN <<>>
    ELSE LET last == Package[Len(Package)]
             rest == findall(SubSeq(Package, 1, Len(Package) - 1), tag, name)
         IN IF last.tag = tag
               /\ \E k \in DOMAIN last.children : last.children[k] = Leaf("name", name)
            THEN Append(rest, Len(Package))
            ELSE rest

\* metadata_tree: section.find(tag), the position of the first child of that tag,
\* 0 when there is none
find(children, tag) ==
    IF \E k \in DOMAIN children : children[k].tag = tag
    THEN CHOOSE k \in DOMAIN children :
             children[k].tag = tag /\ \A j \in 1..(k - 1) : children[j].tag /= tag
    ELSE 0

\* metadata_tree: section.insert_before(child at position k, tag, text)
insert_before(children, k, tag, text) ==
    SubSeq(children, 1, k - 1) \o <<Leaf(tag, text)>> \o SubSeq(children, k, Len(children))

UnboundLocalError == <<"UnboundLocalError", "package_xml">>

\* The resource root on disk: whether static_resource_path exists, what
\* os.listdir returns, the files under each immediate subdirectory, and the
\* content of each plain file.
ResourceRoot(exists, listing, dirs, files) ==
    [exists |-> exists, listing |-> listing, dirs |-> dirs, files |-> files]

\* A Deploy build from _process_meta_xml on.
NewBundler(options, disk, zipf) ==
    [ pc |-> "meta_xml",
      options |-> options,
      disk |-> disk,
      zipf |-> zipf,            \* the zip handed from stage to stage
      zip_src |-> <<>>,         \* the argument of _process_static_resources
      zip_dest |-> <<>>,
      package_xml |-> <<>>,     \* the local package_xml: unbound, or the manifest read
      listing |-> <<>>,         \* the names the bundle loop has still to visit
      bundles |-> <<>>,
      parsed |-> FALSE,         \* metadata_tree.parse was called
      package_zip |-> <<>>,     \* what _get_package_zip returned, once it has
      api |-> <<>>,             \* what the transport was constructed with
      logger |-> <<>>,
      raised |-> NoException ]

\* _process_meta_xml over the entries
_process_meta_xml_entries(b) ==
    IF ~process_bool_arg(b.options.clean_meta_xml, TRUE)
    THEN [b EXCEPT !.pc = "static_resources"]
    ELSE [b EXCEPT !.zipf = zip_clean_metaxml(@),
                   !.logger = Append(@, "Cleaning meta.xml files of packageVersion elements for deploy"),
                   !.pc = "static_resources"]

RECURSIVE CopyEntries(_)
\* lines 217-222: every entry but package.xml is written to zip_dest
CopyEntries(zip) ==
    IF zip = <<>> THEN <<>>
    ELSE IF Head(zip).name = "package.xml"
         THEN CopyEntries(Tail(zip))
         ELSE <<Head(zip)>> \o CopyEntries(Tail(zip))

\* lines 217-222: package_xml is bound to the (last) entry named package.xml
OpenPackageXml(zip) ==
    IF \E i \in DOMAIN zip : zip[i].name = "package.xml"
    THEN LET i == CHOOSE i \in DOMAIN zip :
                      zip[i].name = "package.xml"
                      /\ \A j \in (i + 1)..Len(zip) : zip[j].name /= "package.xml"
         IN <<zip[i].content>>
    ELSE <<>>

\* Mutant: only the option is tested, not os.path.exists.
_process_static_resources_copy_unchecked(b) ==
    IF ~Truthy(b.options.static_resource_path)
    THEN [b EXCEPT !.zip_src = b.zipf, !.pc = "return"]
    ELSE [b EXCEPT !.zip_src = b.zipf,
                   !.zip_dest = CopyEntries(b.zipf),
                   !.package_xml = OpenPackageXml(b.zipf),
                   !.listing = b.disk.listing,
                   !.pc = "bundle"]

\* _process_static_resources, lines 211-222
_process_static_resources_copy(b) ==
    IF ~Truthy(b.options.static_resource_path) \/ ~b.disk.exists
    THEN [b EXCEPT !.zip_src = b.zipf, !.pc = "return"]
    ELSE [b EXCEPT !.zip_src = b.zipf,
                   !.zip_dest = CopyEntries(b.zipf),
                   !.package_xml = OpenPackageXml(b.zipf),
                   !.listing = b.disk.listing,
                   !.pc = "bundle"]

\* _get_static_resource_files and the bundle zip of lines 244-252: the bytes of
\* a zip of every file under the subdirectory
BundleZip(files) == <<Element("zip", [i \in DOMAIN files |-> Leaf("file", files[i])])>>

\* Mutant: a subdirectory without a descriptor is skipped.
_process_static_resources_bundle_skip(b) ==
    IF b.listing = <<>>
    THEN [b EXCEPT !.pc = "package_xml"]
    ELSE LET name == Head(b.listing)
             meta_name == name \o ".resource-meta.xml"
         IN IF name \notin DOMAIN b.disk.dirs
            THEN [b EXCEPT !.listing = Tail(@)]
            ELSE IF meta_name \notin DOMAIN b.disk.files
                 THEN [b EXCEPT !.listing = Tail(@)]
                 ELSE [b EXCEPT
                          !.logger = Append(@, "Zipping {} to add to staticresources"),
                          !.zip_dest =
                              writestr(writestr(@, "staticresources/" \o meta_name,
                                                b.disk.files[meta_name]),
                                       "staticresources/" \o name \o ".resource",
                                       BundleZip(b.disk.dirs[name])),
                          !.bundles = Append(@, name),
                          !.listing = Tail(@)]

\* _process_static_resources, one pass of the loop of lines 227-253, or its end
_process_static_resources_bundle(b) ==
    IF b.listing = <<>>
    THEN [b EXCEPT !.pc = "package_xml"]
    ELSE LET name == Head(b.listing)
             meta_name == name \o ".resource-meta.xml"
         IN IF name \notin DOMAIN b.disk.dirs
            THEN [b EXCEPT !.listing = Tail(@)]
            ELSE IF meta_name \notin DOMAIN b.disk.files
                 THEN [b EXCEPT
                          !.logger = Append(@, "Zipping {} to add to staticresources"),
                          !.raised = IOError,
                          !.pc = "done"]
                 ELSE [b EXCEPT
                          !.logger = Append(@, "Zipping {} to add to staticresources"),
                          !.zip_dest =
                              writestr(writestr(@, "staticresources/" \o meta_name,
                                                b.disk.files[meta_name]),
                                       "staticresources/" \o name \o ".resource",
                                       BundleZip(b.disk.dirs[name])),
                          !.bundles = Append(@, name),
                          !.listing = Tail(@)]

RECURSIVE InsertMembers(_, _)
\* lines 262-263: one members node per bundle, each inserted before the name child
InsertMembers(children, bundles) ==
    IF bundles = <<>> THEN children
    ELSE InsertMembers(insert_before(children, find(children, "name"), "members", Head(bundles)),
                       Tail(bundles))

RECURSIVE AppendMembers(_, _)
AppendMembers(children, bundles) ==
    IF bundles = <<>> THEN children
    ELSE AppendMembers(Append(children, Leaf("members", Head(bundles))), Tail(bundles))

\* Mutant: the members nodes are appended to the section, after its name child.
_process_static_resources_update_appending(b) ==
    IF b.package_xml = <<>>
    THEN [b EXCEPT !.raised = UnboundLocalError, !.pc = "done"]
    ELSE LET Package == b.package_xml[1]
             sections == findall(Package, "types", "StaticResource")
             Appended == Append(Package, Element("types", <<Leaf("name", "StaticResource")>>))
             Tree == IF sections /= <<>> THEN Package ELSE Appended
             section == IF sections /= <<>> THEN sections[1] ELSE Len(Appended)
             Updated == [Tree EXCEPT ![section].children = AppendMembers(@, b.bundles)]
             zip_dest == writestr(b.zip_dest, "package.xml", Updated)
         IN [b EXCEPT !.parsed = TRUE,
                      !.zip_dest = zip_dest,
                      !.zipf = zip_dest,
                      !.pc = "return"]

\* _process_static_resources, "Update package.xml" (lines 255-266). package_xml is
\* unbound when zip_src had no package.xml entry.
_process_static_resources_update(b) ==
    IF b.package_xml = <<>>
    THEN [b EXCEPT !.raised = UnboundLocalError, !.pc = "done"]
    ELSE LET Package == b.package_xml[1]
             sections == findall(Package, "types", "StaticResource")
             Appended == Append(Package, Element("types", <<Leaf("name", "StaticResource")>>))
             Tree == IF sections /= <<>> THEN Package ELSE Appended
             section == IF sections /= <<>> THEN sections[1] ELSE Len(Appended)
             Updated == [Tree EXCEPT ![section].children = InsertMembers(@, b.bundles)]
             zip_dest == writestr(b.zip_dest, "package.xml", Updated)
         IN [b EXCEPT !.parsed = TRUE,
                      !.zip_dest = zip_dest,
                      !.zipf = zip_dest,
                      !.pc = "return"]

\* _get_package_zip, lines 139-142: the processed zip is closed and returned
\* (base64 of its bytes)
_get_package_zip_result(b) == [b EXCEPT !.package_zip = <<b.zipf>>, !.pc = "api"]

\* _get_api: the transport is constructed with the package zip
_get_api_package_zip(b) ==
    [b EXCEPT !.api = b.package_zip,
              !.logger = Append(@, "Payload size: {} bytes"),
              !.pc = "done"]

----------------------------------------------------------------------------
(* Specification SpecBundle: one build from _process_meta_xml to the call  *)
(* of the transport, for every archive, resource root and option below.    *)

MaxBundles == 2     \* most entries of the resource root

BundleNameList == <<"A", "B", "C">>
BundleNames == {BundleNameList[i] : i \in 1..MaxBundles}

RECURSIVE Arrangements(_, _)
\* The sequences of at most n distinct elements of S.
Arrangements(S, n) ==
    IF n = 0 THEN {<<>>}
    ELSE LET shorter == Arrangements(S, n - 1)
         IN shorter \cup
            {Append(p[1], p[2]) :
                p \in {q \in shorter \X S : \A i \in DOMAIN q[1] : q[1][i] /= q[2]}}

\* What a <name>.resource-meta.xml holds
Descriptors ==
    { <<Element("contentType", <<>>)>>,
      <<Element("contentType", <<>>), Element("packageVersions", <<>>)>> }

RECURSIVE Listing(_, _)
\* os.listdir: each subdirectory, followed by its descriptor when it has one
Listing(names, described) ==
    IF names = <<>> THEN <<>>
    ELSE (IF Head(names) \in described
          THEN <<Head(names), Head(names) \o ".resource-meta.xml">>
          ELSE <<Head(names)>>)
         \o Listing(Tail(names), described)

ResourceRootsOnDisk ==
    {ResourceRoot(FALSE, <<>>, <<>>, <<>>)}
    \cup
    { ResourceRoot(TRUE,
                   Listing(names, DOMAIN descriptor),
                   [n \in {names[i] : i \in DOMAIN names} |-> <<"./" \o n \o ".js">>],
                   [f \in {n \o ".resource-meta.xml" : n \in DOMAIN descriptor} |->
                       descriptor[CHOOSE n \in DOMAIN descriptor : f = n \o ".resource-meta.xml"]]) :
        names \in Arrangements(BundleNames, MaxBundles),
        descriptor \in UNION {[D -> Descriptors] : D \in SUBSET BundleNames} }

Manifests ==
    { <<Element("version", <<>>)>>,
      <<Element("types", <<Leaf("members", "AClass"), Leaf("name", "ApexClass")>>),
        Element("version", <<>>)>>,
      <<Element("types", <<Leaf("members", "Old"), Leaf("name", "StaticResource")>>),
        Element("version", <<>>)>>,
      <<Element("types", <<Leaf("members", "AClass"), Leaf("name", "ApexClass")>>),
        Element("types", <<Leaf("name", "StaticResource")>>),
        Element("version", <<>>)>>,
      <<Element("types", <<Leaf("members", "A"), Leaf("name", "StaticResource")>>),
        Element("types", <<Leaf("members", "AClass"), Leaf("name", "ApexClass")>>),
        Element("version", <<>>)>> }

\* The zip built from the source tree: at most one entry per path
SourceZips ==
    { classes \o manifest \o resources :
        classes \in { <<>>,
                      <<Entry("classes/AClass.cls-meta.xml",
                              <<Element("apiVersion", <<>>), Element("packageVersions", <<>>)>>)>> },
        manifest \in {<<>>} \cup {<<Entry("package.xml", m)>> : m \in Manifests},
        resources \in { <<>>,
                        <<Entry("staticresources/A.resource-meta.xml",
                                <<Element("contentType", <<>>)>>),
                          Entry("staticresources/A.resource",
                                <<Element("zip", <<Leaf("file", "./old.js")>>)>>)>> } }

BundleOptions == [clean_meta_xml : BoolOptions, static_resource_path : PathOptions]

bundlerFrame == <<now, log, task, log2, task2, deploy, walk, nspass>>

InitBundle ==
    /\ now = 0
    /\ log = <<>>
    /\ task = NewTask(None)
    /\ log2 = <<>>
    /\ task2 = NewTask(None)
    /\ deploy = IdleDeploy
    /\ walk = NoWalk
    /\ nspass = NoPass
    /\ \E o \in BundleOptions, d \in ResourceRootsOnDisk, z \in SourceZips :
           bundler = NewBundler(o, d, z)

CleanMetaXml ==
    /\ bundler.pc = "meta_xml"
    /\ bundler' = _process_meta_xml_entries(bundler)
    /\ UNCHANGED bundlerFrame

CopyZip ==
    /\ bundler.pc = "static_resources"
    /\ bundler' = _process_static_resources_copy(bundler)
    /\ UNCHANGED bundlerFrame

Bundle ==
    /\ bundler.pc = "bundle"
    /\ bundler' = _process_static_resources_bundle(bundler)
    /\ UNCHANGED bundlerFrame

UpdatePackageXml ==
    /\ bundler.pc = "package_xml"
    /\ bundler' = _process_static_resources_update(bundler)
    /\ UNCHANGED bundlerFrame

ReturnPackageZip ==
    /\ bundler.pc = "return"
    /\ bundler' = _get_package_zip_result(bundler)
    /\ UNCHANGED bundlerFrame

ConstructApi ==
    /\ bundler.pc = "api"
    /\ bundler' = _get_api_package_zip(bundler)
    /\ UNCHANGED bundlerFrame

NextBundle ==
    \/ CleanMetaXml
    \/ CopyZip
    \/ Bundle
    \/ UpdatePackageXml
    \/ ReturnPackageZip
    \/ ConstructApi

SpecBundle == InitBundle /\ [][NextBundle]_vars

----------------------------------------------------------------------------
(* Deploy: the namespace passes over the text of the package. Names and    *)
(* contents are strings.                                                   *)

NamespaceToken == "%%%NAMESPACE%%%"
NamespacedOrgTokens == {"%%%NAMESPACED_ORG%%%", "___NAMESPACED_ORG___"}

RECURSIVE replace(_, _, _)
\* str.replace(old, new): the occurrences of old found from left to right, none
\* overlapping another, are each replaced by new
replace(str, old, new) ==
    IF Len(str) < Len(old) THEN str
    ELSE IF SubSeq(str, 1, Len(old)) = old
         THEN new \o replace(SubSeq(str, Len(old) + 1, Len(str)), old, new)
         ELSE SubSeq(str, 1, 1) \o replace(SubSeq(str, 2, Len(str)), old, new)

\* tokenize_namespace: <namespace>__ becomes the placeholder token, in the name
\* and in the content
tokenize_namespace(entry, namespace) ==
    Entry(replace(entry.name, namespace \o "__", NamespaceToken),
          replace(entry.content, namespace \o "__", NamespaceToken))

\* Both namespaced-org markers of one text replaced by the same value
ReplaceNamespacedOrg(str, value) ==
    replace(replace(str, "%%%NAMESPACED_ORG%%%", value), "___NAMESPACED_ORG___", value)

\* inject_namespace: managed, the placeholder token becomes <namespace>__ and the
\* namespaced-org markers the namespace (namespaced_org) or nothing; unmanaged,
\* token and markers all become nothing
inject_namespace(entry, namespace, managed, namespaced_org) ==
    LET prefix == IF managed THEN namespace \o "__" ELSE ""
        org == IF managed /\ namespaced_org THEN namespace ELSE ""
    IN Entry(ReplaceNamespacedOrg(replace(entry.name, NamespaceToken, prefix), org),
             ReplaceNamespacedOrg(replace(entry.content, NamespaceToken, prefix), org))

\* strip_namespace: <namespace>__ is removed from the name and from the content
strip_namespace(entry, namespace) ==
    Entry(replace(entry.name, namespace \o "__", ""),
          replace(entry.content, namespace \o "__", ""))

\* process_text_in_zipfile: a new zip of the processed text entries; process_file
\* is the functools.partial, a function of the entry
process_text_in_zipfile(zip, process_file) ==
    [i \in DOMAIN zip |-> process_file[zip[i]]]

\* The entries of a zip
Entries(zip) == {zip[i] : i \in DOMAIN zip}

\* A Deploy build at _process_namespace. history holds the zip the first build
\* started from and the zip each build has produced.
NewPass(options, zipf) ==
    [ pc |-> "tokenize",
      options |-> options,
      zipf |-> zipf,
      history |-> <<zipf>>,
      logger |-> <<>> ]

\* _process_namespace, first if (lines 151-164)
_process_namespace_tokenize_text(p) ==
    IF Truthy(p.options.namespace_tokenize)
    THEN [p EXCEPT
             !.logger = Append(@, "Tokenizing namespace prefix {}__"),
             !.zipf = process_text_in_zipfile(@,
                          [e \in Entries(p.zipf) |-> tokenize_namespace(e, p.options.namespace_tokenize)]),
             !.pc = "inject"]
    ELSE [p EXCEPT !.pc = "inject"]

\* Mutant: managed is taken to be the unmanaged option itself.
_process_namespace_inject_text_unmanaged(p) ==
    IF Truthy(p.options.namespace_inject)
    THEN LET managed == process_bool_arg(p.options.unmanaged, TRUE)
         IN [p EXCEPT
                !.logger = Append(@, IF managed
                    THEN "Replacing namespace tokens from metadata with namespace prefix {}__"
                    ELSE "Stripping namespace tokens from metadata for unmanaged deployment"),
                !.zipf = process_text_in_zipfile(@,
                             [e \in Entries(p.zipf) |-> inject_namespace(e, p.options.namespace_inject, managed,
                                            process_bool_arg(p.options.namespaced_org, FALSE))]),
                !.pc = "strip"]
    ELSE [p EXCEPT !.pc = "strip"]

\* _process_namespace, second if (lines 165-188)
_process_namespace_inject_text(p) ==
    IF Truthy(p.options.namespace_inject)
    THEN LET managed == ~process_bool_arg(p.options.unmanaged, TRUE)
         IN [p EXCEPT
                !.logger = Append(@, IF managed
                    THEN "Replacing namespace tokens from metadata with namespace prefix {}__"
                    ELSE "Stripping namespace tokens from metadata for unmanaged deployment"),
                !.zipf = process_text_in_zipfile(@,
                             [e \in Entries(p.zipf) |-> inject_namespace(e, p.options.namespace_inject, managed,
                                            process_bool_arg(p.options.namespaced_org, FALSE))]),
                !.pc = "strip"]
    ELSE [p EXCEPT !.pc = "strip"]

\* _process_namespace, third if (lines 189-198); the build is over for the text
_process_namespace_strip_text(p) ==
    LET zipf == IF Truthy(p.options.namespace_strip)
                THEN process_text_in_zipfile(p.zipf,
                         [e \in Entries(p.zipf) |-> strip_namespace(e, p.options.namespace_strip)])
                ELSE p.zipf
    IN [p EXCEPT !.zipf = zipf, !.history = Append(@, zipf), !.pc = "done"]

\* The task is run again with the same options, on the package it produced.
RunAgain(p) == [p EXCEPT !.pc = "tokenize"]

----------------------------------------------------------------------------
(* Specification SpecNamespace: the namespace passes of one build, and of  *)
(* a second build over the result of the first, for every text below.      *)

MaxPieces == 3      \* most pieces a text is made of

Pieces == {"ns", "__", "ns__", "x", NamespaceToken} \cup NamespacedOrgTokens

RECURSIVE Texts(_)
\* The texts made of at most k pieces.
Texts(k) ==
    IF k = 0 THEN {""}
    ELSE LET shorter == Texts(k - 1)
         IN shorter \cup {t \o piece : t \in shorter, piece \in Pieces}

NamespaceTextOptions ==
    [ namespace_tokenize : NamespaceOptions,
      namespace_inject : NamespaceOptions,
      namespace_strip : NamespaceOptions,
      unmanaged : {NoOption, "False"},
      namespaced_org : {NoOption, "True"} ]

passFrame == <<now, log, task, log2, task2, deploy, walk, bundler>>

InitNamespace ==
    /\ now = 0
    /\ log = <<>>
    /\ task = NewTask(None)
    /\ log2 = <<>>
    /\ task2 = NewTask(None)
    /\ deploy = IdleDeploy
    /\ walk = NoWalk
    /\ bundler = NoBundler
    /\ \E o \in NamespaceTextOptions, X \in Texts(MaxPieces) :
           \/ nspass = NewPass(o, <<Entry(X \o ".cls", "x")>>)
           \/ nspass = NewPass(o, <<Entry("x.cls", X)>>)

TokenizeText ==
    /\ nspass.pc = "tokenize"
    /\ nspass' = _process_namespace_tokenize_text(nspass)
    /\ UNCHANGED passFrame

InjectText ==
    /\ nspass.pc = "inject"
    /\ nspass' = _process_namespace_inject_text(nspass)
    /\ UNCHANGED passFrame

StripText ==
    /\ nspass.pc = "strip"
    /\ nspass' = _process_namespace_strip_text(nspass)
    /\ UNCHANGED passFrame

BuildAgain ==
    /\ nspass.pc = "done"
    /\ Len(nspass.history) < 3
    /\ nspass' = RunAgain(nspass)
    /\ UNCHANGED passFrame

NextNamespace ==
    \/ TokenizeText
    \/ InjectText
    \/ StripText
    \/ BuildAgain

SpecNamespace == InitNamespace /\ [][NextNamespace]_vars

----------------------------------------------------------------------------
(* Deploy: the selection of the files to package. The source tree is the   *)
(* set of its files, each the sequence of its directory names and its file *)
(* name.                                                                   *)

UpperCase == "ABCDEFGHIJKLMNOPQRSTUVWXYZ"
LowerCase == "abcdefghijklmnopqrstuvwxyz"

RECURSIVE lower(_)
\* str.lower
lower(str) ==
    IF str = "" THEN ""
    ELSE LET c == SubSeq(str, 1, 1)
             l == IF \E i \in 1..Len(UpperCase) : SubSeq(UpperCase, i, i) = c
                  THEN LET i == CHOOSE i \in 1..Len(UpperCase) : SubSeq(UpperCase, i, i) = c
                       IN SubSeq(LowerCase, i, i)
                  ELSE c
         IN l \o lower(SubSeq(str, 2, Len(str)))

RECURSIVE split(_, _)
\* str.split(sep), sep one character
split(str, sep) ==
    IF \A i \in 1..Len(str) : SubSeq(str, i, i) /= sep
    THEN <<str>>
    ELSE LET i == CHOOSE i \in 1..Len(str) :
                      SubSeq(str, i, i) = sep /\ \A j \in 1..(i - 1) : SubSeq(str, j, j) /= sep
         IN <<SubSeq(str, 1, i - 1)>> \o split(SubSeq(str, i + 1, Len(str)), sep)

\* os.path.join(root, f)
join(root, f) == root \o "/" \o f

RECURSIVE RootOf(_)
\* The root os.walk(".") reports for a directory of the tree
RootOf(directory) ==
    IF directory = <<>> THEN "."
    ELSE join(RootOf(SubSeq(directory, 1, Len(directory) - 1)), directory[Len(directory)])

\* Mutant: every directory at or below a component directory is included.
_include_directory_deeper(root_parts) ==
    Len(root_parts) = 0 \/ root_parts[1] /= "lwc" \/ Len(root_parts) >= 2

\* Deploy._include_directory
_include_directory(root_parts) ==
    Len(root_parts) = 0 \/ root_parts[1] /= "lwc" \/ Len(root_parts) = 2

\* Deploy._include_file
_include_file(root_parts, f) ==
    IF Len(root_parts) = 2 /\ root_parts[1] = "lwc"
    THEN LET lower_f == lower(f)
         IN \E suffix \in {".js", ".js-meta.xml", ".html", ".css", ".svg"} :
                endswith(lower_f, suffix)
    ELSE TRUE

DirectoryOf(path) == SubSeq(path, 1, Len(path) - 1)
FileOf(path) == path[Len(path)]

\* The directories os.walk visits: the top and every directory above a file
Directories(tree) ==
    {<<>>} \cup UNION {{SubSeq(path, 1, k) : k \in 1..(Len(path) - 1)} : path \in tree}

\* _get_files_to_package under way: the directories os.walk has reported and
\* the paths yielded
NewWalk(tree) ==
    [ pc |-> "walk",
      tree |-> tree,
      visited |-> {},
      yielded |-> {} ]

\* _get_files_to_package, one pass of the loop over os.walk("."), for the
\* directory reported
_get_files_to_package(w, directory) ==
    LET root == RootOf(directory)
        files == {FileOf(path) : path \in {q \in w.tree : DirectoryOf(q) = directory}}
        root_parts == Tail(split(root, "/"))
        visited == w.visited \cup {directory}
    IN [w EXCEPT
           !.visited = visited,
           !.yielded = IF _include_directory(root_parts)
                       THEN @ \cup {join(root, f) : f \in {g \in files : _include_file(root_parts, g)}}
                       ELSE @,
           !.pc = IF visited = Directories(w.tree) THEN "done" ELSE "walk"]

----------------------------------------------------------------------------
(* Specification SpecSelect: _get_files_to_package over every source tree  *)
(* of at most MaxFiles of the files below.                                 *)

MaxFiles == 2       \* most files of a source tree

SourceFiles ==
    { <<"package.xml">>,
      <<"lwc.js">>,
      <<"classes", "AClass.cls">>,
      <<"aura", "lwc", "helper.json">>,
      <<"aura", "cmp", "lib", "data.json">>,
      <<"lwc", "jsconfig.json">>,
      <<"lwc", "shared.js">>,
      <<"lwc", "comp", "comp.js">>,
      <<"lwc", "comp", "Comp.HTML">>,
      <<"lwc", "comp", "comp.js-meta.xml">>,
      <<"lwc", "comp", "comp.css">>,
      <<"lwc", "comp", "icon.SVG">>,
      <<"lwc", "comp", "data.json">>,
      <<"lwc", "comp", "notes.xml">>,
      <<"lwc", "comp", "js">>,
      <<"lwc", "comp", "__tests__", "comp.test.js">>,
      <<"lwc", "comp", "__tests__", "data", "mock.html">> }

SourceTrees == {tree \in SUBSET SourceFiles : Cardinality(tree) <= MaxFiles}

walkFrame == <<now, log, task, log2, task2, deploy, nspass, bundler>>

InitSelect ==
    /\ now = 0
    /\ log = <<>>
    /\ task = NewTask(None)
    /\ log2 = <<>>
    /\ task2 = NewTask(None)
    /\ deploy = IdleDeploy
    /\ nspass = NoPass
    /\ bundler = NoBundler
    /\ \E tree \in SourceTrees : walk = NewWalk(tree)

\* os.walk reports a directory top-down: the top, or one whose parent it has reported
WalkDirectory ==
    /\ walk.pc = "walk"
    /\ \E directory \in Directories(walk.tree) \ walk.visited :
           /\ directory = <<>> \/ DirectoryOf(directory) \in walk.visited
           /\ walk' = _get_files_to_package(walk, directory)
    /\ UNCHANGED walkFrame

NextSelect == WalkDirectory

SpecSelect == InitSelect /\ [][NextSelect]_vars

----------------------------------------------------------------------------
(* What the claims speak of, read off the log itself *)

IsStartMarker(r) == r.Section = "Sharing Defaults" /\ r.Action = "owdUpdateStarted"
IsFinishMarker(r) == r.Section = "Sharing Defaults" /\ r.Action = "owdUpdateFinished"

\* r was created strictly after the baseline date, or no baseline date exists
NewerThan(r, date) == date = None \/ r.CreatedDate > date

StartMarkerIn(l, t) ==
    \E i \in DOMAIN l :
        IsStartMarker(l[i]) /\ NewerThan(l[i], t.last_setup_audit_trail_created_date)

FinishMarkerIn(l, t) ==
    \E i \in DOMAIN l :
        IsFinishMarker(l[i]) /\ NewerThan(l[i], t.last_setup_audit_trail_created_date)

\* a finish marker newer than the baseline entered the log within the timeout
FinishMarkerWithinTimeout(l, t) ==
    \E i \in DOMAIN l :
        /\ IsFinishMarker(l[i])
        /\ NewerThan(l[i], t.last_setup_audit_trail_created_date)
        /\ l[i].CreatedDate - t.time_start <= t.timeout

Logged(t, msg) == \E i \in DOMAIN t.logger : t.logger[i] = msg

FinishedNotice == "Sharing recalculation finished!"
NotStartedNotice == "A sharing recalculation wasn't started after deploying metadata."

TimedOut(t) == t.raised /= NoException /\ t.raised[1] = "SharingRecalculationTimeout"

\* the step is a poll tick of the task
IsPollTick == task.pc = "poll" /\ task'.poll_count = task.poll_count + 1

----------------------------------------------------------------------------
(* C1: when the query after the deploy returns no start marker newer than  *)
(* the baseline, the run ends without an exception, having logged the      *)
(* "wasn't started" notice and without a single poll tick.                 *)
(* The log is frozen once the run is done, so at a done state "no start    *)
(* marker in the log" is "the query found none".                           *)
C1_NotStartedEndsSuccessfully ==
    (task.pc = "done" /\ ~StartMarkerIn(log, task)) =>
        /\ task.raised = NoException
        /\ Logged(task, NotStartedNotice)
        /\ task.poll_count = 0

(* C2: a run that found a start marker, and in which no finish marker newer *)
(* than the baseline entered the log within the timeout, ends by raising   *)
(* SharingRecalculationTimeout naming the configured timeout, and never    *)
(* reports "finished".                                                     *)
C2_NoFinishInTimeMeansTimeout ==
    (StartMarkerIn(log, task) /\ ~FinishMarkerWithinTimeout(log, task)) =>
        /\ ~Logged(task, FinishedNotice)
        /\ task.pc = "done" => task.raised = SharingRecalculationTimeout(task.timeout)

C2_Witness ==
    /\ task.pc = "done"
    /\ StartMarkerIn(log, task)
    /\ ~FinishMarkerWithinTimeout(log, task)
    /\ FinishMarkerIn(log, task)
    /\ task.raised = SharingRecalculationTimeout(task.timeout)
    /\ task.poll_count >= 2

(* C3: "finished" is reported only at a poll tick whose log holds a finish  *)
(* marker newer than the baseline, and every poll tick that runs within    *)
(* the timeout while such a marker is in the log ends the loop with        *)
(* success.                                                                *)
C3_FinishedOnlyAndWheneverMarkerSeen ==
    /\ [](Logged(task, FinishedNotice) =>
            task.pc = "done" /\ task.poll_count > 0 /\ FinishMarkerIn(log, task))
    /\ [][ /\ (Logged(task', FinishedNotice) /\ ~Logged(task, FinishedNotice)) =>
                (IsPollTick /\ FinishMarkerIn(log, task))
           /\ (IsPollTick /\ FinishMarkerIn(log, task)
                 /\ now - task.time_start <= task.timeout) =>
                (/\ task'.pc = "done"
                 /\ task'.poll_complete
                 /\ task'.raised = NoException
                 /\ Logged(task', FinishedNotice)) ]_vars

C3_Witness ==
    /\ task.pc = "done"
    /\ Logged(task, FinishedNotice)
    /\ task.poll_count >= 2

\* the records of l created at or before the baseline date of t
AtOrBeforeBaseline(l, t) ==
    SelectSeq(l, LAMBDA r : ~NewerThan(r, t.last_setup_audit_trail_created_date))

\* everything a run decides and reports, but not how many records its queries scanned
Outcome(t) == [t EXCEPT !.seen = 0]

(* C4: records not created strictly after the baseline never influence the *)
(* run. Two runs whose logs differ only in records at or before the        *)
(* baseline take the same branch at the started check, get the same answer *)
(* at every finish check and end the same way; and with no baseline date   *)
(* (log empty at capture) every record of the log is considered.           *)
C4_OldRecordsNeverInfluence ==
    /\ [](Outcome(task2) = Outcome(task))
    /\ [][ (BaselineCaptured /\ task.last_setup_audit_trail_created_date = None) =>
             /\ (task.pc = "started" /\ task'.pc /= "started") =>
                  (task'.pc = "poll" <=> \E i \in DOMAIN log : IsStartMarker(log[i]))
             /\ (IsPollTick /\ ~TimedOut(task')) =>
                  (task'.poll_complete <=> \E i \in DOMAIN log : IsFinishMarker(log[i])) ]_vars

\* log holds start and finish markers at or before the baseline, log2 holds none,
\* and both runs have timed out waiting for a finish marker
C4_Witness ==
    /\ task.pc = "done"
    /\ TimedOut(task)
    /\ AtOrBeforeBaseline(log, task) /= AtOrBeforeBaseline(log2, task)
    /\ \E i \in DOMAIN log : IsFinishMarker(log[i])
    /\ \A i \in DOMAIN log2 : ~IsFinishMarker(log2[i])

(* C5: the timeout decision of every poll tick compares the timeout with   *)
(* the time elapsed since time_start; time_start is captured once, as the  *)
(* first step of _run_task, before the baseline query and the deploy; and  *)
(* the loop is left only by that timeout or by a finish marker.            *)
C5_TimeoutFromTimeStart ==
    [][ /\ IsPollTick => (TimedOut(task') <=> now - task.time_start > task.timeout)
        /\ task'.time_start /= task.time_start =>
              (/\ task.pc = "run_task"
               /\ task.logger = <<>>
               /\ task.last_setup_audit_trail_created_date = None
               /\ task'.time_start = now)
        /\ (task.pc \in {"poll", "sleep"} /\ task'.pc = "done") =>
              (TimedOut(task') \/ task'.poll_complete) ]_vars

\* the first poll tick times out: only the time the deploy took was counted
C5_Witness ==
    /\ TimedOut(task)
    /\ task.poll_count = 1
    /\ task.timeout < DefaultTimeout

(* C6 as stated: whenever SharingRecalculationTimeout is raised, the log    *)
(* holds no finish marker newer than the baseline.                         *)
C6_TimeoutOnlyWithoutFinishMarker ==
    TimedOut(task) => ~FinishMarkerIn(log, task)

(* C6 amended: whenever SharingRecalculationTimeout is raised, the elapsed  *)
(* time exceeds the timeout and no poll tick has observed a finish marker: *)
(* the records the last finish query saw hold none newer than the          *)
(* baseline (one added since then may be in the log, unobserved).          *)
C6_TimeoutOnlyWithoutObservedFinishMarker ==
    TimedOut(task) =>
        /\ now - task.time_start > task.timeout
        /\ ~task.poll_complete
        /\ ~FinishMarkerIn(SubSeq(log, 1, task.seen), task)

C6_Witness ==
    /\ TimedOut(task)
    /\ FinishMarkerIn(log, task)
    /\ task.seen > 0

----------------------------------------------------------------------------
(* What the claims about Deploy speak of, read off the options *)

StageOrder ==
    <<"archive", "tokenize", "inject", "strip", "meta_xml", "static_resources", "package_xml", "api">>

Rank(stage) == CHOOSE i \in DOMAIN StageOrder : StageOrder[i] = stage

HasRun(stage) == \E i \in DOMAIN deploy.stages : deploy.stages[i] = stage

\* the stage is enabled by the options and the disk
StageEnabled(stage) ==
    CASE stage = "tokenize" -> deploy.options.namespace_tokenize \notin {NoOption, ""}
      [] stage = "inject" -> deploy.options.namespace_inject \notin {NoOption, ""}
      [] stage = "strip" -> deploy.options.namespace_strip \notin {NoOption, ""}
      [] stage = "meta_xml" -> deploy.options.clean_meta_xml /= "False"
      [] stage \in {"static_resources", "package_xml"} ->
            deploy.options.static_resource_path \notin {NoOption, ""}
                /\ deploy.resource_root /= "absent"
      [] OTHER -> TRUE

\* the specified_tests option yields at least one test name
SpecifiedTestsGiven ==
    \/ deploy.options.specified_tests.kind = "str"
    \/ deploy.options.specified_tests.value /= <<>>

InvalidTestOptions ==
    \/ (deploy.options.test_level \notin {NoOption, ""}
          /\ deploy.options.test_level \notin
                {"NoTestRun", "RunLocalTests", "RunAllTestsInOrg", "RunSpecifiedTests"})
    \/ SpecifiedTestsGiven /= (deploy.options.test_level = "RunSpecifiedTests")

OptionsErrorRaised ==
    deploy.raised /= NoException /\ deploy.raised[1] = "TaskOptionsError"

(* C8: option initialisation raises TaskOptionsError exactly when           *)
(* test_level is set to a value outside the four valid ones, or            *)
(* (specified_tests non-empty) differs from (test_level =                  *)
(* RunSpecifiedTests); when it is raised no archive has been built and the *)
(* transport has not been invoked.                                         *)
C8_OptionsErrorIffInvalid ==
    /\ deploy.pc = "init_options" => (deploy.raised = NoException /\ deploy.stages = <<>>)
    /\ deploy.pc /= "init_options" =>
          /\ OptionsErrorRaised <=> InvalidTestOptions
          /\ OptionsErrorRaised => (deploy.stages = <<>> /\ deploy.pc = "done")

\* specified_tests given with a valid test_level other than RunSpecifiedTests
C8_Witness ==
    /\ deploy.pc = "done"
    /\ OptionsErrorRaised
    /\ deploy.options.test_level = "RunLocalTests"
    /\ SpecifiedTestsGiven
    /\ deploy.stages = <<>>

(* C9: the stages that run do so in the fixed order archive build,         *)
(* tokenize, inject, strip, meta-xml clean, static-resource bundling,      *)
(* manifest edit, each at most once, and the transport is given the        *)
(* archive only after every enabled stage has run.                         *)
C9_StagesInFixedOrder ==
    /\ \A i, j \in DOMAIN deploy.stages :
          i < j => Rank(deploy.stages[i]) < Rank(deploy.stages[j])
    /\ HasRun("api") =>
          \A k \in DOMAIN StageOrder : StageEnabled(StageOrder[k]) => HasRun(StageOrder[k])
    /\ \A k \in DOMAIN StageOrder : HasRun(StageOrder[k]) => StageEnabled(StageOrder[k])

C9_Witness ==
    /\ deploy.pc = "done"
    /\ deploy.stages = StageOrder

(* C10 as stated: no run executes both the inject pass and the strip pass. *)
C10_InjectStripExclusive ==
    ~(HasRun("inject") /\ HasRun("strip"))

(* C10 amended: the inject pass runs exactly when namespace_inject is set  *)
(* and the strip pass exactly when namespace_strip is set, so a run with   *)
(* both options executes both, inject before strip; when tokenize and      *)
(* inject both run, tokenize runs first.                                   *)
C10_InjectAndStripIndependent ==
    LET Before(x, y) ==
            \A i, j \in DOMAIN deploy.stages :
                (deploy.stages[i] = x /\ deploy.stages[j] = y) => i < j
    IN /\ deploy.pc \in {"meta_xml", "static_resources", "package_xml", "api"} =>
             /\ HasRun("inject") <=> StageEnabled("inject")
             /\ HasRun("strip") <=> StageEnabled("strip")
       /\ HasRun("inject") => StageEnabled("inject")
       /\ HasRun("strip") => StageEnabled("strip")
       /\ Before("inject", "strip")
       /\ Before("tokenize", "inject")

C10_Witness ==
    /\ HasRun("tokenize")
    /\ HasRun("inject")
    /\ HasRun("strip")
    /\ deploy.pc = "done"
    /\ HasRun("api")

----------------------------------------------------------------------------
(* What the claims about the contents of the package speak of *)

BundlingRan(b) == Truthy(b.options.static_resource_path) /\ b.disk.exists

\* _process_static_resources has returned a rebuilt zip
BundlingDone(b) ==
    BundlingRan(b) /\ b.pc \in {"return", "api", "done"} /\ b.raised = NoException

RECURSIVE Subdirectories(_, _)
\* The immediate subdirectories of the resource root, in listing order
Subdirectories(listing, dirs) ==
    IF listing = <<>> THEN <<>>
    ELSE IF Head(listing) \in DOMAIN dirs
         THEN <<Head(listing)>> \o Subdirectories(Tail(listing), dirs)
         ELSE Subdirectories(Tail(listing), dirs)

Holds(zip, entry) == \E j \in DOMAIN zip : zip[j] = entry
Paths(zip, name) == {j \in DOMAIN zip : zip[j].name = name}

IsStaticResourceSection(node) ==
    node.tag = "types" /\ \E k \in DOMAIN node.children : node.children[k] = Leaf("name", "StaticResource")

RECURSIVE MembersOf(_)
MembersOf(children) ==
    IF children = <<>> THEN <<>>
    ELSE IF Head(children).tag = "members"
         THEN <<Head(children)>> \o MembersOf(Tail(children))
         ELSE MembersOf(Tail(children))

\* The manifest the claim expects: the members of the bundles, in order, after the
\* members the StaticResource section had and before its name child; the section
\* is the first one of the manifest read, or a new last one.
ExpectedManifest(manifest, names) ==
    LET new == [i \in DOMAIN names |-> Leaf("members", names[i])]
        name == <<Leaf("name", "StaticResource")>>
    IN IF \E k \in DOMAIN manifest : IsStaticResourceSection(manifest[k])
       THEN LET k == CHOOSE k \in DOMAIN manifest :
                         /\ IsStaticResourceSection(manifest[k])
                         /\ \A j \in 1..(k - 1) : ~IsStaticResourceSection(manifest[j])
            IN [manifest EXCEPT ![k].children = MembersOf(@) \o new \o name]
       ELSE Append(manifest, Element("types", new \o name))

(* C11: when the resource root exists and every immediate subdirectory has *)
(* its descriptor, the zip _process_static_resources returns holds every   *)
(* entry of its input other than package.xml unchanged, for each           *)
(* subdirectory the descriptor at staticresources/<name>.resource-meta.xml *)
(* and the bundle at staticresources/<name>.resource, one package.xml, and *)
(* nothing else; the StaticResource section of that package.xml (the       *)
(* existing one, else a new last one) lists the members it had, then one   *)
(* members node per subdirectory in listing order, then its name child.    *)
C11_BundlesAndManifest ==
    BundlingDone(bundler) =>
        LET in == bundler.zip_src
            out == bundler.zipf
            names == Subdirectories(bundler.disk.listing, bundler.disk.dirs)
        IN /\ \A i \in DOMAIN in : in[i].name /= "package.xml" => Holds(out, in[i])
           /\ \A k \in DOMAIN names :
                 /\ Holds(out, Entry("staticresources/" \o names[k] \o ".resource-meta.xml",
                                     bundler.disk.files[names[k] \o ".resource-meta.xml"]))
                 /\ Holds(out, Entry("staticresources/" \o names[k] \o ".resource",
                                     BundleZip(bundler.disk.dirs[names[k]])))
           /\ Len(out) = Len(CopyEntries(in)) + 2 * Len(names) + 1
           /\ Cardinality(Paths(out, "package.xml")) = 1
           /\ \A i \in Paths(in, "package.xml"), j \in Paths(out, "package.xml") :
                 out[j].content = ExpectedManifest(in[i].content, names)

C11_Witness ==
    /\ BundlingDone(bundler)
    /\ bundler.pc = "done"
    /\ bundler.bundles = <<"B", "A">>
    /\ \E i \in Paths(bundler.zip_src, "package.xml") :
           /\ IsStaticResourceSection(bundler.zip_src[i].content[1])
           /\ MembersOf(bundler.zip_src[i].content[1].children) /= <<>>
    /\ Paths(bundler.zipf, "package.xml") /= {}

\* An immediate subdirectory of the resource root has no <name>.resource-meta.xml
DescriptorMissing(b) ==
    /\ BundlingRan(b)
    /\ \E n \in DOMAIN b.disk.dirs : (n \o ".resource-meta.xml") \notin DOMAIN b.disk.files

(* C12: when an immediate subdirectory of the resource root lacks its       *)
(* <name>.resource-meta.xml, the build ends with the I/O error of the open, *)
(* however many bundles were added before: nothing runs after the error,   *)
(* _get_package_zip returns no archive and the transport is not            *)
(* constructed.                                                            *)
C12_MissingDescriptorAborts ==
    DescriptorMissing(bundler) =>
        /\ bundler.package_zip = <<>>
        /\ bundler.api = <<>>
        /\ bundler.pc = "done" => bundler.raised = IOError
        /\ bundler.raised /= NoException => bundler.pc = "done"

C12_Witness ==
    /\ DescriptorMissing(bundler)
    /\ bundler.raised = IOError
    /\ bundler.bundles /= <<>>
    /\ Len(bundler.zip_dest) > Len(CopyEntries(bundler.zip_src))

HasPackageVersions(entry) ==
    \E k \in DOMAIN entry.content : entry.content[k].tag = "packageVersions"

(* C13: with clean_meta_xml enabled (the default), no entry of the archive  *)
(* handed to the transport whose name ends in meta.xml holds a             *)
(* packageVersions element, the staticresources/<name>.resource-meta.xml   *)
(* descriptors added by the bundling included.                             *)
C13_NoPackageVersionsShipped ==
    (process_bool_arg(bundler.options.clean_meta_xml, TRUE) /\ bundler.api /= <<>>) =>
        \A i \in DOMAIN bundler.api[1] :
            endswith(bundler.api[1][i].name, "meta.xml") => ~HasPackageVersions(bundler.api[1][i])

----------------------------------------------------------------------------
(* What the claims about the namespace passes speak of *)

\* sub occurs in str
contains(str, sub) ==
    \E i \in 1..(Len(str) - Len(sub) + 1) : SubSeq(str, i, i + Len(sub) - 1) = sub

\* The first build tokenized and then injected, managed, the same namespace, and
\* did not strip.
TokenizedThenInjected(p) ==
    /\ Len(p.history) >= 2
    /\ Truthy(p.options.namespace_tokenize)
    /\ p.options.namespace_inject = p.options.namespace_tokenize
    /\ p.options.unmanaged = "False"
    /\ ~Truthy(p.options.namespace_strip)

HoldsNoToken(str) ==
    /\ ~contains(str, NamespaceToken)
    /\ \A marker \in NamespacedOrgTokens : ~contains(str, marker)

StrippedTwice(p) ==
    /\ Len(p.history) = 3
    /\ Truthy(p.options.namespace_strip)
    /\ ~Truthy(p.options.namespace_tokenize)
    /\ ~Truthy(p.options.namespace_inject)

(* C15: strip is idempotent, on names and on contents: stripping the        *)
(* namespace from a stripped package changes nothing,                      *)
(* strip(strip(X, ns), ns) = strip(X, ns).                                 *)
C15_StripIdempotent ==
    StrippedTwice(nspass) => nspass.history[3] = nspass.history[2]

----------------------------------------------------------------------------
(* What the claim about the file selection speaks of *)

\* The path _get_files_to_package yields for a file of the tree
PathOf(path) == join(RootOf(DirectoryOf(path)), FileOf(path))

Selected(w, path) == PathOf(path) \in w.yielded

InContainer(path) == Len(path) > 1 /\ path[1] = "lwc"

\* The file lies directly in a component directory lwc/<component>
InComponent(path) == InContainer(path) /\ Len(path) = 3

ListedExtensions == {".js", ".js-meta.xml", ".html", ".css", ".svg"}

HasListedExtension(name) == \E ext \in ListedExtensions : endswith(lower(name), ext)

(* C16: once the walk is over, a file is selected exactly when its          *)
(* directory is the top, lies outside lwc, or is a component directory     *)
(* lwc/<component>, and, in a component directory, its lower-cased name    *)
(* ends in .js, .js-meta.xml, .html, .css or .svg. So no file below        *)
(* lwc/<component>/<subdir> is selected, a file in lwc/<component> is      *)
(* selected only with a listed extension, every file outside lwc is        *)
(* selected, and nothing but files of the tree is selected.                *)
C16_SelectionRule ==
    walk.pc = "done" =>
        /\ \A path \in walk.tree :
              /\ Selected(walk, path) <=>
                     \/ ~InContainer(path)
                     \/ InComponent(path) /\ HasListedExtension(FileOf(path))
              /\ (InContainer(path) /\ Len(path) > 3) => ~Selected(walk, path)
              /\ (InComponent(path) /\ Selected(walk, path)) => HasListedExtension(FileOf(path))
              /\ ~InContainer(path) => Selected(walk, path)
        /\ walk.yielded \subseteq {PathOf(path) : path \in walk.tree}

C16_Witness ==
    /\ walk.pc = "done"
    /\ <<"lwc", "comp", "data.json">> \in walk.tree
    /\ walk.yielded = {"./lwc/comp/Comp.HTML"}

(* C17: when static_resource_path is not set or does not exist on disk,     *)
(* _process_static_resources returns the zip it was given: the step leaves *)
(* every entry and content as it was, opens and parses no package.xml,     *)
(* writes nothing to a new zip and raises nothing, and the zip returned by *)
(* _get_package_zip is the one _process_meta_xml produced.                 *)
C17_NoResourceRootNoOp ==
    /\ [](( ~BundlingRan(bundler) /\ bundler.pc \in {"return", "api", "done"} ) =>
             /\ bundler.zipf = bundler.zip_src
             /\ ~bundler.parsed
             /\ bundler.package_xml = <<>>
             /\ bundler.zip_dest = <<>>
             /\ bundler.raised = NoException)
    /\ [][( bundler.pc = "static_resources" /\ ~BundlingRan(bundler) ) =>
             /\ bundler'.zipf = bundler.zipf
             /\ bundler'.pc = "return"]_vars

C17_Witness ==
    /\ bundler.pc = "done"
    /\ Truthy(bundler.options.static_resource_path)
    /\ ~bundler.disk.exists
    /\ bundler.api = <<bundler.zip_src>>
    /\ Paths(bundler.zip_src, "package.xml") /= {}
    /\ Paths(bundler.zip_src, "staticresources/A.resource") /= {}

(* C18: the zip _process_static_resources returns has no path twice and     *)
(* exactly one package.xml entry, also when the source zip already holds   *)
(* staticresources/<name>.resource or its descriptor for a bundled name.   *)
C18_NoDuplicatePaths ==
    BundlingDone(bundler) =>
        /\ \A i, j \in DOMAIN bundler.zipf :
               bundler.zipf[i].name = bundler.zipf[j].name => i = j
        /\ Cardinality(Paths(bundler.zipf, "package.xml")) = 1

----------------------------------------------------------------------------
(* C19: whenever the run has reported "Sharing recalculation finished!",    *)
(* the log holds, among the records newer than the baseline, a start       *)
(* marker and a finish marker logged after it; a finish marker logged      *)
(* before the only start marker newer than the baseline never makes the    *)
(* run report success.                                                     *)
C19_FinishFollowsStart ==
    Logged(task, FinishedNotice) =>
        \E i, j \in DOMAIN log :
            /\ i < j
            /\ IsStartMarker(log[i])
            /\ NewerThan(log[i], task.last_setup_audit_trail_created_date)
            /\ IsFinishMarker(log[j])
            /\ NewerThan(log[j], task.last_setup_audit_trail_created_date)

(* C20: a run that is over has reached exactly one of the three outcomes:   *)
(* the "wasn't started" notice, "finished", or the timeout error; and a    *)
(* poll tick is followed by another tick only when it found no finish      *)
(* marker newer than the baseline and the elapsed time did not exceed the  *)
(* timeout.                                                                *)
C20_ExactlyOneOutcome ==
    /\ [](task.pc = "done" =>
             LET notStarted == Logged(task, NotStartedNotice)
                 finished == Logged(task, FinishedNotice)
                 timedOut == TimedOut(task)
             IN /\ notStarted \/ finished \/ timedOut
                /\ ~(notStarted /\ finished)
                /\ ~(notStarted /\ timedOut)
                /\ ~(finished /\ timedOut))
    /\ [][(IsPollTick /\ task'.pc = "sleep") =>
             /\ ~FinishMarkerIn(log, task)
             /\ now - task.time_start <= task.timeout]_vars

====
